---- MODULE Spec2Model ----
(***************************************************************************)
(* HopBop (src/src/main.py): a global keyboard tap that launches an        *)
(* application when Option+digit is pressed.  Three threads share state:   *)
(* the callback (main run-loop) thread, the config-watch thread and the    *)
(* launcher thread.                                                        *)
(***************************************************************************)
EXTENDS Integers, Sequences, FiniteSets, TLC

(***************************************************************************)
(* Program constants and input sets                                        *)
(***************************************************************************)

\* HOTKEY_KEYCODES, main.py line 14
HOTKEY_KEYCODES == <<18, 19, 20, 21, 23, 22, 26, 28, 25>>

\* _launch_q = queue.Queue(): maxsize 0, main.py line 20
QueueMaxSize == 0

\* A str is the sequence of its characters' code points (ord): "a\n" is
\* <<97, 10>>.

\* Python's None (a dict miss, or the launcher's stop sentinel): a sequence
\* that holds no code point, so this value is no str.
None == <<-1>>

\* Characters str.strip() removes, those with str.isspace(): U+0009..U+000D,
\* U+001C..U+0020, U+0085, U+00A0, U+1680, U+2000..U+200A, U+2028, U+2029,
\* U+202F, U+205F, U+3000.
WhiteSpace ==
    (9..13) \cup (28..32) \cup {133, 160, 5760} \cup (8192..8202)
       \cup {8232, 8233, 8239, 8287, 12288}

\* Total number of launch requests the environment lets a run produce.
MaxPuts == 2

\* Longest config file (in lines) given to the loader in SpecLoad.
MaxLines == 11

\* Key codes the environment delivers: slot 1, slot 2, and a non-hotkey key.
EventKeys == {18, 19, 0}

\* HOPBOP_CONFIG = os.path.expanduser('~/.hopbop'), line 13, for two homes:
\* "/Users/me/.hopbop" and "/Users/jos\xe9/.hopbop"
PathPlain ==
    <<47, 85, 115, 101, 114, 115, 47, 109, 101, 47, 46, 104, 111, 112, 98, 111, 112>>
PathAccent ==
    <<47, 85, 115, 101, 114, 115, 47, 106, 111, 115, 233, 47, 46, 104, 111, 112, 98,
    111, 112>>

\* The code points Python's cp864 codec encodes (it has none for "%", 37).
Cp864 ==
    (0..36) \cup (38..127) \cup (162..164) \cup (171..173) \cup (176..177) \cup
    (187..189) \cup (1632..1642) \cup (8729..8730) \cup (65152..65157) \cup
    (65165..65167) \cup (65225..65233) \cup (65259..65261) \cup (65263..65267) \cup
    (65269..65272) \cup (65275..65276) \cup {160, 166, 183, 215, 247, 946, 966, 1548,
    1563, 1567, 1600, 1617, 8734, 8776, 9472, 9474, 9484, 9488, 9492, 9496, 9500, 9508,
    9516, 9524, 9532, 9618, 9632, 65149, 65163, 65169, 65171, 65173, 65175, 65177,
    65179, 65181, 65183, 65185, 65187, 65189, 65191, 65193, 65195, 65197, 65199, 65201,
    65203, 65205, 65207, 65209, 65211, 65213, 65215, 65217, 65221, 65235, 65237, 65239,
    65241, 65243, 65245, 65247, 65249, 65251, 65253, 65255, 65257}

\* sys.stdout.encoding as the process may find it
Encodings == {"utf-8", "ascii", "cp864"}

\* whether str.encode(enc) has an encoding for the character c (print raises
\* UnicodeEncodeError when it has none)
CanEncode(enc, c) ==
    IF enc = "ascii" THEN c < 128
    ELSE IF enc = "cp864" THEN c \in Cp864
    ELSE TRUE

\* whether print(text) returns normally; the fixed parts of the program's
\* lines ("[HopBop] Failed to load config: ", "[1] -> ", the messages of
\* OSError and UnicodeEncodeError) are encoded by all of Encodings, so text is
\* the part that varies
CanPrint(enc, text) == \A i \in 1..Len(text) : CanEncode(enc, text[i])

\* the environments of a run; PlainEnv lets every line be printed
Envs == [enc : Encodings, path : {PathPlain, PathAccent}]
PlainEnv == [enc |-> "utf-8", path |-> PathPlain]

\* Config files the environment writes in Spec: sequences of raw lines, each
\* a sequence of characters.
\*   FileA  "a\n", " % \n"      FileB  " \x0b\n", "\xe9\n"      FileC  "\n"
FileA == << <<97, 10>>, <<32, 37, 32, 10>> >>
FileB == << <<32, 11, 10>>, <<233, 10>> >>
FileC == << <<10>> >>
ConfigFiles == {FileA, FileB, FileC}

\* Config files of SpecLoad: line i is blank (" \x1c\n") or holds the i-th
\* letter of a..m with surrounding white space ("\xa0" before, "\t\x0b\n"
\* after), for every length up to MaxLines.
Letters == <<97, 98, 99, 100, 101, 102, 103, 104, 105, 106, 107, 108, 109>>
RawLine(i, blank) ==
    IF blank THEN <<32, 28, 10>> ELSE <<160, Letters[i], 9, 11, 10>>
LoadFiles ==
    UNION { { [i \in 1..n |-> RawLine(i, i \in B)] : B \in SUBSET (1..n) } : n \in 0..MaxLines }

VARIABLES
    main_pc,        \* main(): "start", "loaded", "watching", "tap", "running", "exit", "died"
    file,           \* the config source: [readable, lines]
    mapping,        \* global mapping (dict keycode -> bundle id)
    lock,           \* MAPPING_LOCK: "free", "cb", "loader"
    ld_pc,          \* config-watch thread: "off", "idle", "load", "lock", "set", "log", "died"
    new_map,        \* load_mappings' local new_map
    ld_log,         \* the last line logged by the loader: "none", "reloading", "ok", "failed"
    cb_pc,          \* callback thread: "idle", "lock", "get", "fire"
    cb_key,         \* keycode of the key-down being handled
    bundle_id,      \* tap_callback's local bundle_id
    ret,            \* value returned by the last finished callback
    alt_down,       \* _alt_down
    pressed_fired,  \* _pressed_fired
    tap_port,       \* _tap_port
    tap_enabled,    \* whether the OS delivers events to the tap
    tap_notice,     \* pending tap-disabled notification, or "none"
    tap_called,     \* history: the last notification was answered by CGEventTapEnable
    launch_q,       \* _launch_q
    ln_pc,          \* launcher thread: "off", "get", "spawn", "exited"
    ln_item,        \* _launcher's local bundle_id
    enq,            \* history: every target put on _launch_q, in order
    attempts,       \* history: every Popen call, in order, with its outcome
    last,           \* history: per hotkey, the most recent event relevant to it
    ev,             \* history: the event handed to the last callback invocation
    since,          \* history: per key, launches enqueued since its last debounce reset
    env             \* the process environment: [enc: sys.stdout.encoding, path: HOPBOP_CONFIG]

vars == <<main_pc, file, mapping, lock, ld_pc, new_map, ld_log, cb_pc, cb_key,
          bundle_id, ret, alt_down, pressed_fired, tap_port, tap_enabled,
          tap_notice, tap_called, launch_q, ln_pc, ln_item, enq, attempts, last,
          ev, since, env>>

loaderVars == <<mapping, lock, ld_pc, new_map, ld_log>>
cbVars == <<cb_pc, cb_key, bundle_id, ret, alt_down, pressed_fired>>
tapVars == <<tap_port, tap_enabled, tap_notice, tap_called>>
launcherVars == <<ln_pc, ln_item, attempts>>

Range(s) == { s[i] : i \in DOMAIN s }
Min(a, b) == IF a < b THEN a ELSE b
HistKeys == EventKeys \cap Range(HOTKEY_KEYCODES)

(***************************************************************************)
(* load_mappings: parsing and the snapshot                                 *)
(***************************************************************************)

RECURSIVE LStrip(_)
LStrip(s) == IF s = <<>> THEN s
             ELSE IF Head(s) \in WhiteSpace THEN LStrip(Tail(s)) ELSE s

RECURSIVE RStrip(_)
RStrip(s) == IF s = <<>> THEN s
             ELSE IF s[Len(s)] \in WhiteSpace THEN RStrip(SubSeq(s, 1, Len(s) - 1)) ELSE s

\* str.strip()
Strip(s) == RStrip(LStrip(s))

RECURSIVE MapStrip(_)
MapStrip(ls) == IF ls = <<>> THEN <<>> ELSE <<Strip(Head(ls))>> \o MapStrip(Tail(ls))

\* mutant of ParseLines: blank lines are stripped but kept
ParseLinesKeepBlank(raw) == MapStrip(raw)

\* [line.strip() for line in f if line.strip()]
ParseLines(raw) == MapStrip(SelectSeq(raw, LAMBDA l : Strip(l) # <<>>))

\* {code: bundle_id for code, bundle_id in zip(HOTKEY_KEYCODES, lines)}
\* (a later pair would overwrite an earlier one with the same code)
BuildMap(lines) ==
    LET n == Min(Len(HOTKEY_KEYCODES), Len(lines))
        idx(c) == CHOOSE i \in 1..n :
                     HOTKEY_KEYCODES[i] = c /\ \A j \in (i+1)..n : HOTKEY_KEYCODES[j] # c
    IN  [c \in { HOTKEY_KEYCODES[i] : i \in 1..n } |-> lines[idx(c)]]

\* mapping = {} at import
EmptyMap == BuildMap(<<>>)

\* mutant of Install: the live table is updated in place (mapping.update)
InstallInPlace(old, new) ==
    [c \in DOMAIN old \cup DOMAIN new |-> IF c \in DOMAIN new THEN new[c] ELSE old[c]]

\* mapping = new_map (a rebinding of the global name)
Install(old, new) == new

\* mapping.get(keycode)
Get(m, k) == IF k \in DOMAIN m THEN m[k] ELSE None

\* Python truthiness of a str-or-None
Truthy(b) == b # None /\ b # <<>>

(***************************************************************************)
(* Initial state: the module has been imported, main() has not run         *)
(***************************************************************************)

\* history values: no launch counted; no hotkey followed; no event recorded
\* (EvOff: and none will be)
NoLaunches == [k \in EventKeys |-> 0]
NoHistory == [k \in {} |-> "init"]
EvOff == [type |-> "off", key |-> 0, alt |-> FALSE, was |-> FALSE, n |-> 0]
EvNone == [type |-> "none", key |-> 0, alt |-> FALSE, was |-> FALSE, n |-> 0]

\* history: the callback is invoked with an event of this type, keycode and
\* Option bit while _alt_down is was; n alternates so that two equal events
\* in a row are two records
Observe(e, type, key, alt, was) ==
    IF e.type = "off" THEN e
    ELSE [type |-> type, key |-> key, alt |-> alt, was |-> was, n |-> 1 - e.n]

Unreadable == [readable |-> FALSE, lines |-> <<>>]
Files == { [readable |-> TRUE, lines |-> l] : l \in ConfigFiles } \cup {Unreadable}
NoPort == "None"

\* the program's own state after import
InitProgram ==
    /\ main_pc = "start"
    /\ file \in Files
    /\ mapping = EmptyMap
    /\ lock = "free"
    /\ ld_pc = "off"
    /\ new_map = EmptyMap
    /\ ld_log = "none"
    /\ cb_pc = "idle"
    /\ cb_key = 0
    /\ bundle_id = None
    /\ ret = "none"
    /\ alt_down = FALSE
    /\ pressed_fired = {}
    /\ tap_port = NoPort
    /\ tap_enabled = FALSE
    /\ tap_notice = "none"
    /\ tap_called = FALSE
    /\ launch_q = <<>>
    /\ ln_pc = "off"
    /\ ln_item = None
    /\ enq = <<>>
    /\ attempts = <<>>
    /\ since = NoLaunches

\* the per-hotkey history is kept, the event record is not
Init ==
    /\ InitProgram
    /\ last = [k \in HistKeys |-> "init"]
    /\ ev = EvOff
    /\ env = PlainEnv

\* the event record is kept, the per-hotkey history is not
InitEvents ==
    /\ InitProgram
    /\ last = NoHistory
    /\ ev = EvNone
    /\ env = PlainEnv

\* neither is kept
InitQuiet ==
    /\ InitProgram
    /\ last = NoHistory
    /\ ev = EvOff
    /\ env = PlainEnv

\* neither is kept, and the process runs in any of Envs
InitEnvs ==
    /\ InitProgram
    /\ last = NoHistory
    /\ ev = EvOff
    /\ env \in Envs

(***************************************************************************)
(* main()                                                                  *)
(***************************************************************************)

\* load_mappings() run to completion by one thread with no other thread
\* running: the value of mapping afterwards
LoadedMap(f, old) ==
    IF f.readable THEN Install(old, BuildMap(ParseLines(f.lines))) ELSE old

\* lines 48-49: whether every slot line of m is printed
SlotsPrinted(enc, m) == \A k \in DOMAIN m : CanPrint(enc, m[k])

\* lines 48-51: the loader's last log line after the loop over
\* mapping.values(): nothing is printed for an empty table; a print that
\* raises is caught at line 50 and the failure line (the message of the
\* UnicodeEncodeError, which escapes the character) is printed
SlotsLog(m, log, printed) ==
    IF m = EmptyMap THEN log ELSE IF printed THEN "ok" ELSE "failed"

\* line 51 after open() raised: str(e) holds the path, so the failure line
\* is printed only when stdout encodes the path; otherwise print raises
\* inside the except block and the exception leaves load_mappings
FailurePrinted(e) == CanPrint(e.enc, e.path)

\* the process has not ended: neither sys.exit(1) nor an exception that
\* left main() (the watcher and launcher threads are daemon threads: they
\* end with the process)
Alive == main_pc \notin {"exit", "died"}

\* main(), line 114: load_mappings() on the main thread, before any other
\* thread exists; an exception that leaves load_mappings ends main()
MainLoad ==
    /\ main_pc = "start"
    /\ mapping' = LoadedMap(file, mapping)
    /\ IF file.readable
       THEN /\ ld_log' = SlotsLog(LoadedMap(file, mapping), ld_log,
                                  SlotsPrinted(env.enc, LoadedMap(file, mapping)))
            /\ main_pc' = "loaded"
       ELSE IF FailurePrinted(env)
       THEN /\ ld_log' = "failed"
            /\ main_pc' = "loaded"
       ELSE /\ ld_log' = ld_log
            /\ main_pc' = "died"
    /\ UNCHANGED <<file, lock, ld_pc, new_map, cbVars, tapVars, launch_q, launcherVars,
                   enq, last, ev, since, env>>

\* main(), line 115: start_config_watcher(); the observer thread runs from
\* here on
MainWatch ==
    /\ main_pc = "loaded"
    /\ main_pc' = "watching"
    /\ ld_pc' = "idle"
    /\ UNCHANGED <<file, mapping, lock, new_map, ld_log, cbVars, tapVars, launch_q,
                   launcherVars, enq, last, ev, since, env>>

\* main(), lines 117-120: start the launcher thread
MainLaunch ==
    /\ main_pc = "watching"
    /\ main_pc' = "tap"
    /\ ln_pc' = "get"
    /\ UNCHANGED <<file, loaderVars, cbVars, tapVars, launch_q, ln_item, attempts,
                   enq, last, ev, since, env>>

\* main(), lines 128-146: CGEventTapCreate; when it returns None, the error
\* line (it holds U+2192) and sys.exit(1), or the exception of that print;
\* else the run loop
MainTap ==
    /\ main_pc = "tap"
    /\ \E tap_ok \in BOOLEAN :
          IF tap_ok
          THEN /\ main_pc' = "running"
               /\ tap_port' = "port"
               /\ tap_enabled' = TRUE
          ELSE /\ main_pc' = IF CanPrint(env.enc, <<8594>>) THEN "exit" ELSE "died"
               /\ UNCHANGED <<tap_port, tap_enabled>>
    /\ UNCHANGED <<file, loaderVars, cbVars, tap_notice, tap_called, launch_q,
                   launcherVars, enq, last, ev, since, env>>

(***************************************************************************)
(* Environment: the config file and the OS                                 *)
(***************************************************************************)

\* the user (or an editor) rewrites, removes or protects ~/.hopbop
EditConfig ==
    /\ main_pc \notin {"start", "exit", "died"}
    /\ \E f \in Files \ {file} : file' = f
    /\ UNCHANGED <<main_pc, loaderVars, cbVars, tapVars, launch_q, launcherVars,
                   enq, last, ev, since, env>>

\* the OS disables the tap (callback too slow, or user input)
TapDisable ==
    /\ main_pc = "running"
    /\ tap_enabled
    /\ tap_enabled' = FALSE
    /\ \E why \in {"timeout", "userinput"} : tap_notice' = why
    /\ tap_called' = FALSE
    /\ UNCHANGED <<main_pc, file, loaderVars, cbVars, tap_port, launch_q,
                   launcherVars, enq, last, ev, since, env>>

(***************************************************************************)
(* Config-watch thread: HopBopConfigHandler.on_modified and load_mappings  *)
(***************************************************************************)

\* on_modified: a directory event; when the path matches, sleep, log and
\* call load_mappings
OnModified ==
    /\ Alive
    /\ ld_pc = "idle"
    /\ \E match \in BOOLEAN :
          /\ ld_pc' = IF match THEN "load" ELSE "idle"
          /\ ld_log' = IF match THEN "reloading" ELSE ld_log
    /\ UNCHANGED <<main_pc, file, mapping, lock, new_map, cbVars, tapVars,
                   launch_q, launcherVars, enq, last, ev, since, env>>

\* load_mappings, except branch after open() raised: log the failure and
\* return; when that print raises, the exception leaves load_mappings and
\* on_modified and ends the observer thread
LoadFailed ==
    /\ IF FailurePrinted(env)
       THEN ld_log' = "failed" /\ ld_pc' = "idle"
       ELSE ld_log' = ld_log /\ ld_pc' = "died"
    /\ UNCHANGED <<mapping, new_map, lock>>

\* load_mappings, lines 43-45: open and read the file, build new_map
LoadRead ==
    /\ Alive
    /\ ld_pc = "load"
    /\ IF file.readable
       THEN /\ new_map' = BuildMap(ParseLines(file.lines))
            /\ ld_pc' = "lock"
            /\ UNCHANGED <<mapping, lock, ld_log>>
       ELSE LoadFailed
    /\ UNCHANGED <<main_pc, file, cbVars, tapVars, launch_q, launcherVars, enq, last, ev, since,
                   env>>

\* load_mappings, line 46: with MAPPING_LOCK (acquire)
LoadAcquire ==
    /\ Alive
    /\ ld_pc = "lock"
    /\ lock = "free"
    /\ lock' = "loader"
    /\ ld_pc' = "set"
    /\ UNCHANGED <<main_pc, file, mapping, new_map, ld_log, cbVars, tapVars,
                   launch_q, launcherVars, enq, last, ev, since, env>>

\* mutant of LoadInstall: keys whose target changed are taken out of the
\* debounce set
LoadInstallForgets ==
    /\ Alive
    /\ ld_pc = "set"
    /\ mapping' = Install(mapping, new_map)
    /\ lock' = "free"
    /\ ld_pc' = "log"
    /\ pressed_fired' = { k \in pressed_fired : Get(new_map, k) = Get(mapping, k) }
    /\ UNCHANGED <<main_pc, file, new_map, ld_log, cb_pc, cb_key, bundle_id, ret,
                   alt_down, tapVars, launch_q, launcherVars, enq, last, ev, since, env>>

\* mutant of LoadInstall: the lock is not released
LoadInstallHolds ==
    /\ Alive
    /\ ld_pc = "set"
    /\ mapping' = Install(mapping, new_map)
    /\ ld_pc' = "log"
    /\ UNCHANGED <<main_pc, file, lock, new_map, ld_log, cbVars, tapVars, launch_q,
                   launcherVars, enq, last, ev, since, env>>

\* load_mappings, line 47 and the end of the with block: mapping = new_map,
\* release
LoadInstall ==
    /\ Alive
    /\ ld_pc = "set"
    /\ mapping' = Install(mapping, new_map)
    /\ lock' = "free"
    /\ ld_pc' = "log"
    /\ UNCHANGED <<main_pc, file, new_map, ld_log, cbVars, tapVars, launch_q,
                   launcherVars, enq, last, ev, since, env>>

\* load_mappings, lines 48-51: print the slots of mapping, outside the lock,
\* and return
LoadLog ==
    /\ Alive
    /\ ld_pc = "log"
    /\ ld_log' = SlotsLog(mapping, ld_log, SlotsPrinted(env.enc, mapping))
    /\ ld_pc' = "idle"
    /\ new_map' = EmptyMap
    /\ UNCHANGED <<main_pc, file, mapping, lock, cbVars, tapVars, launch_q,
                   launcherVars, enq, last, ev, since, env>>

(***************************************************************************)
(* Callback thread: tap_callback                                           *)
(***************************************************************************)

\* the OS hands the tap a keyboard event only while the tap is enabled and
\* the previous callback has returned
CanDeliver == main_pc = "running" /\ cb_pc = "idle" /\ tap_enabled

\* mutant of CallsEnable: the test is inverted
CallsEnableInverted(port) == port = NoPort

\* line 76: if _tap_port is not None
CallsEnable(port) == port # NoPort

\* lines 75-78: a tap-disabled notification; CGEventTapEnable(_tap_port, True)
\* turns delivery back on
TapDisabledEvent ==
    /\ main_pc = "running"
    /\ cb_pc = "idle"
    /\ tap_notice # "none"
    /\ tap_called' = CallsEnable(tap_port)
    /\ tap_enabled' = (tap_enabled \/ CallsEnable(tap_port))
    /\ tap_notice' = "none"
    /\ ev' = Observe(ev, "tapdisabled", 0, FALSE, alt_down)
    /\ ret' = "event"
    /\ UNCHANGED <<main_pc, file, loaderVars, cb_pc, cb_key, bundle_id, alt_down,
                   pressed_fired, tap_port, launch_q, launcherVars, enq, last, since, env>>

\* mutant of FlagsFired: the release of the modifier clears nothing
FlagsFiredKeeps(was_down, now_down, fired) == fired

\* lines 87-88: the debounce set after a flags-changed event
FlagsFired(was_down, now_down, fired) ==
    IF was_down /\ ~now_down THEN {} ELSE fired

\* history, per hotkey k, of the most recent event that concerns k:
\*   "init"      none yet
\*   "fired"     an Option key-down of k that enqueued a launch (and any
\*               Option key-downs of k after it that did not)
\*   "refired"   the same, when the launch came right after "keyupf"
\*   "down"      an Option key-down of k that enqueued nothing, not after "fired"
\*   "keyupf"    a key-up of k, after "fired"/"refired"
\*   "keyup"     any other key-up of k
\*   "relheld"   the modifier was released (flags-changed, bit clear) after k
\*               fired, with no key-up of k since
\*   "release"   the modifier was released otherwise
\*   "pressheld" the modifier was pressed (flags-changed, bit set) right after "relheld"
\*   "press"     the modifier was pressed right after "release"
LastOnFlags(l, bit) ==
    [k \in DOMAIN l |->
        IF bit
        THEN (IF l[k] = "relheld" THEN "pressheld"
              ELSE IF l[k] = "release" THEN "press" ELSE l[k])
        ELSE (IF l[k] \in {"fired", "refired", "relheld", "pressheld"}
              THEN "relheld" ELSE "release")]

\* lines 82-89: kCGEventFlagsChanged
FlagsChangedEvent ==
    /\ CanDeliver
    /\ \E bit \in BOOLEAN :
          /\ alt_down' = bit
          /\ pressed_fired' = FlagsFired(alt_down, bit, pressed_fired)
          /\ last' = LastOnFlags(last, bit)
          /\ ev' = Observe(ev, "flags", 0, bit, alt_down)
          /\ since' = IF alt_down /\ ~bit THEN NoLaunches ELSE since
    /\ ret' = "event"
    /\ UNCHANGED <<main_pc, file, loaderVars, cb_pc, cb_key, bundle_id, tapVars,
                   launch_q, launcherVars, enq, env>>

\* lines 91-95 and 109: kCGEventKeyDown; without the Option bit the event is
\* returned at once, with it the callback goes on to the lookup
KeyDownEvent ==
    /\ CanDeliver
    /\ \E k \in EventKeys, bit \in BOOLEAN :
          /\ IF bit
             THEN /\ Len(enq) < MaxPuts
                  /\ cb_pc' = "lock"
                  /\ cb_key' = k
                  /\ UNCHANGED ret
             ELSE /\ ret' = "event"
                  /\ UNCHANGED <<cb_pc, cb_key>>
          /\ ev' = Observe(ev, "down", k, bit, alt_down)
    /\ UNCHANGED <<main_pc, file, loaderVars, bundle_id, alt_down, pressed_fired,
                   tapVars, launch_q, launcherVars, enq, last, since, env>>

\* line 96: with MAPPING_LOCK (acquire)
CbAcquire ==
    /\ cb_pc = "lock"
    /\ lock = "free"
    /\ lock' = "cb"
    /\ cb_pc' = "get"
    /\ UNCHANGED <<main_pc, file, mapping, ld_pc, new_map, ld_log, cb_key, bundle_id,
                   ret, alt_down, pressed_fired, tapVars, launch_q, launcherVars,
                   enq, last, ev, since, env>>

\* line 97: bundle_id = mapping.get(keycode), and the release of the lock
CbLookup ==
    /\ cb_pc = "get"
    /\ bundle_id' = Get(mapping, cb_key)
    /\ lock' = "free"
    /\ cb_pc' = "fire"
    /\ UNCHANGED <<main_pc, file, mapping, ld_pc, new_map, ld_log, cb_key, ret,
                   alt_down, pressed_fired, tapVars, launch_q, launcherVars, enq, last, ev, since,
                   env>>

\* mutant of ShouldFire: the debounce test is missing
ShouldFireRepeats(b, k, fired) == Truthy(b)

\* mutant of ShouldFire: the tracked _alt_down is consulted as well
ShouldFireTracked(b, k, fired) == alt_down /\ Truthy(b) /\ k \notin fired

\* mutant of ShouldFire: the test of bundle_id is missing
ShouldFireAny(b, k, fired) == k \notin fired

\* line 98: if bundle_id and keycode not in _pressed_fired
ShouldFire(b, k, fired) == Truthy(b) /\ k \notin fired

\* mutant of PutReady: the queue holds one request at most
PutReadyBounded(q) == Len(q) < 1

\* line 101: Queue.put returns at once unless maxsize > 0 and the queue is full
PutReady(q) == QueueMaxSize <= 0 \/ Len(q) < QueueMaxSize

\* history: an Option key-down on k was handled
LastOnDown(l, k, didFire) ==
    IF k \notin DOMAIN l THEN l
    ELSE [l EXCEPT ![k] =
            IF didFire THEN (IF l[k] = "keyupf" THEN "refired" ELSE "fired")
            ELSE IF l[k] \in {"fired", "refired"} THEN l[k] ELSE "down"]

\* lines 98-102 and 109: debounce, enqueue and swallow, or pass the event on
CbFire ==
    /\ cb_pc = "fire"
    /\ IF ShouldFire(bundle_id, cb_key, pressed_fired)
       THEN /\ PutReady(launch_q)
            /\ pressed_fired' = pressed_fired \cup {cb_key}
            /\ launch_q' = Append(launch_q, bundle_id)
            /\ enq' = Append(enq, bundle_id)
            /\ ret' = "None"
       ELSE /\ ret' = "event"
            /\ UNCHANGED <<pressed_fired, launch_q, enq>>
    /\ last' = LastOnDown(last, cb_key, ShouldFire(bundle_id, cb_key, pressed_fired))
    /\ since' = IF ShouldFire(bundle_id, cb_key, pressed_fired)
                THEN [since EXCEPT ![cb_key] = @ + 1] ELSE since
    /\ cb_pc' = "idle"
    /\ cb_key' = 0
    /\ bundle_id' = None
    /\ UNCHANGED <<main_pc, file, loaderVars, alt_down, tapVars, launcherVars, ev, env>>

\* mutant of KeyUpFired: the key-up releases every key
KeyUpFiredClears(k, fired) == {}

\* mutant of KeyUpFired: the key-up does not release the debounce
KeyUpFiredKeeps(k, fired) == fired

\* lines 106-107: the debounce set after a key-up of k
KeyUpFired(k, fired) == fired \ {k}

\* history: a key-up of k was handled
LastOnUp(l, k) ==
    IF k \notin DOMAIN l THEN l
    ELSE [l EXCEPT ![k] = IF l[k] \in {"fired", "refired"} THEN "keyupf" ELSE "keyup"]

\* lines 103-109: kCGEventKeyUp
KeyUpEvent ==
    /\ CanDeliver
    /\ \E k \in EventKeys, bit \in BOOLEAN :
          /\ pressed_fired' = KeyUpFired(k, pressed_fired)
          /\ last' = LastOnUp(last, k)
          /\ ev' = Observe(ev, "up", k, bit, alt_down)
          /\ since' = [since EXCEPT ![k] = 0]
    /\ ret' = "event"
    /\ UNCHANGED <<main_pc, file, loaderVars, cb_pc, cb_key, bundle_id, alt_down,
                   tapVars, launch_q, launcherVars, enq, env>>

(***************************************************************************)
(* Launcher thread: _launcher                                              *)
(***************************************************************************)

\* mutant of LauncherGet: the newest request is taken (a LifoQueue)
LauncherGetLifo ==
    /\ Alive
    /\ ln_pc = "get"
    /\ launch_q # <<>>
    /\ ln_item' = launch_q[Len(launch_q)]
    /\ launch_q' = SubSeq(launch_q, 1, Len(launch_q) - 1)
    /\ ln_pc' = IF launch_q[Len(launch_q)] = None THEN "exited" ELSE "spawn"
    /\ UNCHANGED <<main_pc, file, loaderVars, cbVars, tapVars, attempts, enq, last,
                   ev, since, env>>

\* mutant of LauncherGet: the request is read but left on the queue
LauncherGetKeeps ==
    /\ Alive
    /\ ln_pc = "get"
    /\ launch_q # <<>>
    /\ ln_item' = Head(launch_q)
    /\ ln_pc' = IF Head(launch_q) = None THEN "exited" ELSE "spawn"
    /\ UNCHANGED <<main_pc, file, loaderVars, cbVars, tapVars, launch_q, attempts,
                   enq, last, ev, since, env>>

\* lines 23-25: bundle_id = _launch_q.get(); return on None
LauncherGet ==
    /\ Alive
    /\ ln_pc = "get"
    /\ launch_q # <<>>
    /\ ln_item' = Head(launch_q)
    /\ launch_q' = Tail(launch_q)
    /\ ln_pc' = IF Head(launch_q) = None THEN "exited" ELSE "spawn"
    /\ UNCHANGED <<main_pc, file, loaderVars, cbVars, tapVars, attempts, enq, last, ev, since,
                   env>>

\* mutant of AfterSpawn: a failed Popen ends the thread
AfterSpawnDies(ok) == IF ok THEN "get" ELSE "exited"

\* lines 26-32: where the loop stands after try / except / finally
AfterSpawn(ok) == "get"

\* lines 26-32: subprocess.Popen, which may raise
LauncherSpawn ==
    /\ Alive
    /\ ln_pc = "spawn"
    /\ \E ok \in BOOLEAN :
          /\ attempts' = Append(attempts, [target |-> ln_item, ok |-> ok])
          /\ ln_pc' = AfterSpawn(ok)
    /\ ln_item' = None
    /\ UNCHANGED <<main_pc, file, loaderVars, cbVars, tapVars, launch_q, enq, last, ev, since,
                   env>>

(***************************************************************************)
(* Specifications                                                          *)
(***************************************************************************)

Next ==
    \/ MainLoad
    \/ MainWatch
    \/ MainLaunch
    \/ MainTap
    \/ EditConfig
    \/ TapDisable
    \/ OnModified
    \/ LoadRead
    \/ LoadAcquire
    \/ LoadInstall
    \/ LoadLog
    \/ TapDisabledEvent
    \/ FlagsChangedEvent
    \/ KeyDownEvent
    \/ CbAcquire
    \/ CbLookup
    \/ CbFire
    \/ KeyUpEvent
    \/ LauncherGet
    \/ LauncherSpawn

Spec == Init /\ [][Next]_vars

\* The dispatcher and the hot reload.  The steps left out (the launcher's, the
\* tap notification's) neither read nor write what these steps read, except
\* that the launcher shortens launch_q.
NextKeys ==
    \/ MainLoad
    \/ MainWatch
    \/ MainLaunch
    \/ MainTap
    \/ EditConfig
    \/ OnModified
    \/ LoadRead
    \/ LoadAcquire
    \/ LoadInstall
    \/ LoadLog
    \/ FlagsChangedEvent
    \/ KeyDownEvent
    \/ CbAcquire
    \/ CbLookup
    \/ CbFire
    \/ KeyUpEvent

SpecKeys == Init /\ [][NextKeys]_vars

\* The dispatcher and the launcher, with the config file left alone.
NextLaunch ==
    \/ MainLoad
    \/ MainWatch
    \/ MainLaunch
    \/ MainTap
    \/ FlagsChangedEvent
    \/ KeyDownEvent
    \/ CbAcquire
    \/ CbLookup
    \/ CbFire
    \/ KeyUpEvent
    \/ LauncherGet
    \/ LauncherSpawn

SpecLaunch == Init /\ [][NextLaunch]_vars

\* The launcher is a thread of its own: the scheduler keeps running it.
FairLaunch == SpecLaunch /\ WF_vars(LauncherGet) /\ WF_vars(LauncherSpawn)

\* The dispatcher and the tap being disabled by the OS.
NextTap ==
    \/ MainLoad
    \/ MainWatch
    \/ MainLaunch
    \/ MainTap
    \/ TapDisable
    \/ TapDisabledEvent
    \/ FlagsChangedEvent
    \/ KeyDownEvent
    \/ CbAcquire
    \/ CbLookup
    \/ CbFire
    \/ KeyUpEvent

SpecTap == Init /\ [][NextTap]_vars

\* load_mappings as a function of the file: the program is running with the
\* snapshot of one of ConfigFiles installed, the file has been rewritten to
\* one of LoadFiles and the watcher is about to reload it.
InitLoad ==
    /\ main_pc = "running"
    /\ file \in { [readable |-> TRUE, lines |-> l] : l \in LoadFiles }
    /\ mapping \in { BuildMap(ParseLines(l)) : l \in ConfigFiles }
    /\ lock = "free"
    /\ ld_pc = "load"
    /\ new_map = EmptyMap
    /\ ld_log = "reloading"
    /\ cb_pc = "idle"
    /\ cb_key = 0
    /\ bundle_id = None
    /\ ret = "none"
    /\ alt_down = FALSE
    /\ pressed_fired = {}
    /\ tap_port = "port"
    /\ tap_enabled = TRUE
    /\ tap_notice = "none"
    /\ tap_called = FALSE
    /\ launch_q = <<>>
    /\ ln_pc = "get"
    /\ ln_item = None
    /\ enq = <<>>
    /\ attempts = <<>>
    /\ last = [k \in HistKeys |-> "init"]
    /\ ev = EvOff
    /\ since = NoLaunches
    /\ env = PlainEnv

NextLoad ==
    \/ LoadRead
    \/ LoadAcquire
    \/ LoadInstall
    \/ LoadLog

SpecLoad == InitLoad /\ [][NextLoad]_vars

\* The dispatcher alone, with every event it is handed recorded in ev.
NextEvents ==
    \/ MainLoad
    \/ MainWatch
    \/ MainLaunch
    \/ MainTap
    \/ FlagsChangedEvent
    \/ KeyDownEvent
    \/ CbAcquire
    \/ CbLookup
    \/ CbFire
    \/ KeyUpEvent

SpecEvents == InitEvents /\ [][NextEvents]_vars

\* The three threads together (all but the tap notification), without the
\* per-hotkey history and the event record.
NextThreads ==
    \/ MainLoad
    \/ MainWatch
    \/ MainLaunch
    \/ MainTap
    \/ EditConfig
    \/ OnModified
    \/ LoadRead
    \/ LoadAcquire
    \/ LoadInstall
    \/ LoadLog
    \/ FlagsChangedEvent
    \/ KeyDownEvent
    \/ CbAcquire
    \/ CbLookup
    \/ CbFire
    \/ KeyUpEvent
    \/ LauncherGet
    \/ LauncherSpawn

SpecThreads == InitQuiet /\ [][NextThreads]_vars

\* The dispatcher and the hot reload, without the per-hotkey history and the
\* event record.
SpecReload == InitQuiet /\ [][NextKeys]_vars

\* Startup and the hot reload in every environment of Envs (the other
\* specifications run in PlainEnv, where every line is printed).
NextEnvs ==
    \/ MainLoad
    \/ MainWatch
    \/ MainLaunch
    \/ MainTap
    \/ EditConfig
    \/ OnModified
    \/ LoadRead
    \/ LoadAcquire
    \/ LoadInstall
    \/ LoadLog

SpecEnvs == InitEnvs /\ [][NextEnvs]_vars

(***************************************************************************)
(* Steps the claims speak about                                            *)
(***************************************************************************)

\* the callback finishes an Option key-down on hotkey k
DownDone(k) == cb_pc = "fire" /\ cb_pc' = "idle" /\ cb_key = k

\* that step enqueues exactly one request, for target t, and swallows the event
EnqueuesOne(t) == launch_q' = Append(launch_q, t) /\ enq' = Append(enq, t) /\ ret' = "None"

\* that step enqueues nothing
EnqueuesNone == launch_q' = launch_q /\ enq' = enq

(***************************************************************************)
(* C1-C4: debounce                                                         *)
(***************************************************************************)

\* C1: for a key k mapped to T, the first Option key-down of k after the
\* modifier was pressed, or after k's key-up, enqueues exactly one
\* LaunchRequest(T) and is suppressed; every further Option key-down of k
\* before a key-up of k enqueues nothing.
C1_FirstDownFiresOnce ==
    [][\A k \in HistKeys :
          DownDone(k) =>
             /\ (last[k] \in {"press", "pressheld", "keyup", "keyupf"} /\ Truthy(bundle_id))
                   => EnqueuesOne(bundle_id)
             /\ last[k] \in {"fired", "refired"} => EnqueuesNone]_vars

\* C3: while the modifier stays held, after k fired, a key-up of k followed
\* by an Option key-down of k (k mapped to T) enqueues a second
\* LaunchRequest(T) and suppresses the key-down.
C3_KeyUpRearms ==
    [][\A k \in HistKeys :
          (DownDone(k) /\ last[k] = "keyupf" /\ Truthy(bundle_id))
             => (EnqueuesOne(bundle_id) /\ Len(enq') >= 2)]_vars

\* C3 witness: a hotkey fired, was released and fired again
C3_Witness ==
    \E k \in HistKeys :
        /\ last[k] = "refired"
        /\ ret = "None"
        /\ Len(enq) >= 2
        /\ k \in pressed_fired

\* C4: after k fired, a release of the modifier followed by a press of the
\* modifier makes the next Option key-down of k (k mapped) enqueue a new
\* request, with no key-up of k in between.
C4_ReleaseClearsDebounce ==
    [][\A k \in HistKeys :
          (DownDone(k) /\ last[k] = "pressheld" /\ Truthy(bundle_id))
             => EnqueuesOne(bundle_id)]_vars

(***************************************************************************)
(* C2: unmapped keys                                                       *)
(***************************************************************************)

\* C2: an Option key-down of a key that is not in the installed snapshot (at
\* the lookup) enqueues nothing, leaves the debounce set alone and is
\* forwarded.
C2_UnmappedForwarded ==
    [][\A k \in EventKeys :
          /\ (cb_pc = "get" /\ cb_pc' = "fire" /\ cb_key = k)
                => (bundle_id' = None <=> k \notin DOMAIN mapping)
          /\ (DownDone(k) /\ bundle_id = None)
                => (EnqueuesNone /\ pressed_fired' = pressed_fired /\ ret' = "event")]_vars

\* C2 witness: an Option key-down of an unmapped hotkey was forwarded and
\* nothing was ever enqueued
C2_Witness ==
    \E k \in HistKeys :
        /\ last[k] = "down"
        /\ k \notin DOMAIN mapping
        /\ mapping # EmptyMap
        /\ cb_pc = "idle"
        /\ ret = "event"
        /\ enq = <<>>
        /\ pressed_fired = {}

(***************************************************************************)
(* C5-C7: the loader                                                       *)
(***************************************************************************)

\* the snapshots of whole files
WholeSnapshots == {EmptyMap} \cup { BuildMap(ParseLines(l)) : l \in ConfigFiles }

\* C5: the table a reader can see is always a whole snapshot: it changes
\* only by becoming the table the loader built off to the side, and a lookup
\* reads one table, never while the loader is installing.
C5_ReloadAtomic ==
    /\ [](mapping \in WholeSnapshots)
    /\ [][/\ mapping' # mapping
             => mapping' = (IF main_pc = "start" THEN BuildMap(ParseLines(file.lines))
                            ELSE new_map)
          /\ (cb_pc = "get" /\ cb_pc' = "fire")
             => (bundle_id' = Get(mapping, cb_key) /\ mapping' = mapping /\ ld_pc # "set")]_vars

\* C5 witness: a lookup ran between the loader's read and its install, and
\* got the old snapshot's answer, which differs from the new one's
C5_Witness ==
    /\ cb_pc = "fire"
    /\ ld_pc = "lock"
    /\ bundle_id = Get(mapping, cb_key)
    /\ bundle_id # Get(new_map, cb_key)
    /\ mapping # EmptyMap
    /\ new_map # EmptyMap

\* C6: a load of a source that cannot be opened (at startup or on reload)
\* leaves the installed snapshot as it was, and the failure is contained:
\* load_mappings logs it and returns, no exception leaves it.
C6_FailedReloadKeepsSnapshot ==
    [][(/\ ~file.readable
        /\ \/ (ld_pc = "load" /\ ld_pc' # "load")
           \/ (main_pc = "start" /\ main_pc' # "start"))
          => /\ mapping' = mapping
             /\ ld_pc' # "died"
             /\ main_pc' # "died"]_vars

\* the line has a character that is not white space
NonBlank(l) == \E i \in 1..Len(l) : l[i] \notin WhiteSpace

\* the line without its leading and trailing white space
Trimmed(l) ==
    LET ink == { i \in 1..Len(l) : l[i] \notin WhiteSpace }
        lo == CHOOSE i \in ink : \A j \in ink : i <= j
        hi == CHOOSE i \in ink : \A j \in ink : j <= i
    IN  SubSeq(l, lo, hi)

\* how many lines of the file are not blank, and where the i-th of them is
NumNonBlank(raw) == Cardinality({ j \in 1..Len(raw) : NonBlank(raw[j]) })
NthNonBlank(raw, i) ==
    CHOOSE j \in 1..Len(raw) :
        NonBlank(raw[j]) /\ Cardinality({ m \in 1..j : NonBlank(raw[m]) }) = i

\* C7: once load_mappings has installed the table built from a file whose
\* non-blank trimmed lines are L1..Ln, the snapshot maps the i-th hotkey to Li for i <= min(n, 9) and
\* maps nothing else.
C7_PositionalSlots ==
    (ld_pc \in {"log", "idle"}) =>
        LET n == NumNonBlank(file.lines)
            m == Min(n, 9)
        IN  /\ DOMAIN mapping = { HOTKEY_KEYCODES[i] : i \in 1..m }
            /\ \A i \in 1..m :
                  mapping[HOTKEY_KEYCODES[i]] = Trimmed(file.lines[NthNonBlank(file.lines, i)])

\* C7 witness: a file with more than nine targets and a blank line among the
\* first nine lines was loaded over a snapshot with other targets
C7_Witness ==
    /\ ld_pc = "idle"
    /\ ld_log = "ok"
    /\ new_map = EmptyMap
    /\ NumNonBlank(file.lines) > 9
    /\ \E j \in 1..9 : ~NonBlank(file.lines[j])
    /\ Cardinality(DOMAIN mapping) = 9

(***************************************************************************)
(* C8-C9: the launcher                                                     *)
(***************************************************************************)

AttemptTargets == [i \in 1..Len(attempts) |-> attempts[i].target]
InHand == IF ln_pc = "spawn" THEN <<ln_item>> ELSE <<>>

\* C8: every request ever enqueued is in exactly one place: already handed
\* to Popen (once), in the launcher's hand, or still on the queue; nothing
\* else was ever handed to Popen.
C8_ConsumedExactlyOnce == enq = AttemptTargets \o InHand \o launch_q

\* C8 witness: one request was spawned and the next is in the launcher's hand
C8_Witness ==
    /\ Len(attempts) = 1
    /\ ln_pc = "spawn"
    /\ Len(enq) = 2
    /\ launch_q = <<>>

\* C9: a failed Popen drops that request only and leaves the loop running;
\* every request enqueued, before or after the failure, is still attempted.
C9_SpawnFailureContained ==
    /\ [][(ln_pc = "spawn" /\ attempts' # attempts /\ ~attempts'[Len(attempts')].ok)
             => /\ ln_pc' = "get"
                /\ launch_q' = launch_q
                /\ Len(attempts') = Len(attempts) + 1]_vars
    /\ \A n \in 1..MaxPuts :
          (Len(enq) >= n /\ \E i \in DOMAIN attempts : ~attempts[i].ok)
             ~> (Len(attempts) >= n)

\* C9 witness: a spawn failed and a later request was attempted all the same
C9_Witness ==
    /\ Len(attempts) = 2
    /\ ~attempts[1].ok
    /\ attempts[2].ok
    /\ ln_pc = "get"

(***************************************************************************)
(* C10: the tap-disabled notification                                      *)
(***************************************************************************)

\* C10: the callback answers a tap-disabled notification with the re-enable
\* call and returns the event; debounce set, modifier state, mapping and
\* queue stay as they were; no keyboard event is taken up while a
\* notification is pending.
C10_TapReenabled ==
    /\ [][(tap_notice # "none" /\ tap_notice' = "none")
             => /\ tap_called'
                /\ tap_enabled'
                /\ ret' = "event"
                /\ UNCHANGED <<pressed_fired, alt_down, mapping, launch_q>>]_vars
    /\ [][(cb_pc = "idle" /\ <<alt_down, pressed_fired, cb_pc, last>>' #
                              <<alt_down, pressed_fired, cb_pc, last>>)
             => tap_notice = "none"]_vars

\* C10 witness: a notification was answered while keys were debounced, the
\* modifier was down and a request was queued
C10_Witness ==
    /\ tap_called
    /\ tap_enabled
    /\ tap_notice = "none"
    /\ ret = "event"
    /\ alt_down
    /\ pressed_fired # {}
    /\ launch_q # <<>>

\* the callback is invoked with an event of this type
Handed(type) == ev' # ev /\ ev'.type = type

(***************************************************************************)
(* C11-C20                                                                 *)
(***************************************************************************)

\* C11: the enqueue never blocks and never drops: whenever the callback
\* stands at the debounce test (whatever the queue holds, wherever the
\* launcher is) its step is enabled, and when the test passes that one step
\* appends the target to the queue and returns.
C11_EnqueueNeverBlocks ==
    /\ [](cb_pc = "fire" => ENABLED CbFire)
    /\ [][(cb_pc = "fire" /\ cb_pc' # cb_pc
             /\ ShouldFire(bundle_id, cb_key, pressed_fired))
            => (launch_q' = Append(launch_q, bundle_id) /\ cb_pc' = "idle"
                /\ UNCHANGED launcherVars)]_vars

\* a request is about to be enqueued behind one the launcher has not taken
C11_Witness ==
    /\ cb_pc = "fire"
    /\ ShouldFire(bundle_id, cb_key, pressed_fired)
    /\ Len(launch_q) >= 1
    /\ ln_pc \in {"get", "spawn"}

\* C12: a modifier-changed event that takes the tracked ModifierState from
\* up to down leaves DebounceSet empty.
C12_PressClearsDebounce ==
    [][(~alt_down /\ alt_down') => pressed_fired' = {}]_vars

\* C13: in every reachable state where the tracked ModifierState is up,
\* DebounceSet is empty.
C13_UpMeansEmpty == ~alt_down => pressed_fired = {}

\* C13, amended: DebounceSet holds exactly the keys for which a launch was
\* enqueued since their last reset (their key-up, or a tracked down->up
\* transition of the modifier), and it is empty right after every tracked
\* down->up transition; the tracked ModifierState may be up meanwhile.
C13_EntriesSinceReset ==
    /\ [](\A k \in EventKeys : k \in pressed_fired <=> since[k] >= 1)
    /\ [][(alt_down /\ ~alt_down') => pressed_fired' = {}]_vars

\* after a launch, a tracked down->up transition was handled: the set is empty
C13_Witness ==
    /\ ev.type = "flags" /\ ev.was /\ ~ev.alt
    /\ ~alt_down
    /\ pressed_fired = {}
    /\ enq # <<>>
    /\ ret = "event"

\* C14: what a key-down does is fixed by the event's modifier bit, its
\* keycode, the installed mapping and DebounceSet, never by the tracked
\* ModifierState: with the bit clear it is forwarded, enqueues nothing and
\* leaves DebounceSet alone; with the bit set the key is looked up, and it
\* fires exactly when it has a target and is not in DebounceSet.
C14_FlagFieldAuthoritative ==
    [][/\ (Handed("down") /\ ~ev'.alt)
            => (ret' = "event" /\ cb_pc' = "idle" /\ EnqueuesNone
                /\ UNCHANGED <<pressed_fired, alt_down>>)
       /\ (Handed("down") /\ ev'.alt)
            => (cb_pc' = "lock" /\ cb_key' = ev'.key /\ EnqueuesNone
                /\ UNCHANGED <<pressed_fired, alt_down>>)
       /\ (cb_pc = "get" /\ cb_pc' = "fire")
            => (bundle_id' = Get(mapping, cb_key) /\ EnqueuesNone
                /\ UNCHANGED <<pressed_fired, alt_down>>)
       /\ \A k \in EventKeys :
             DownDone(k) =>
                /\ UNCHANGED alt_down
                /\ IF Truthy(bundle_id) /\ k \notin pressed_fired
                   THEN EnqueuesOne(bundle_id) /\ pressed_fired' = pressed_fired \cup {k}
                   ELSE EnqueuesNone /\ ret' = "event" /\ UNCHANGED pressed_fired]_vars

\* a key-down without the bit was forwarded while the tracked state is down
\* and a key is debounced
C14_Witness ==
    /\ ev.type = "down" /\ ~ev.alt /\ ev.was
    /\ alt_down
    /\ pressed_fired # {}
    /\ ret = "event"
    /\ cb_pc = "idle"

\* C15: a key-up of k takes k out of DebounceSet and nothing else, leaves the
\* tracked ModifierState, the mapping and the launch queue as they are, and
\* is forwarded.
C15_KeyUpFrame ==
    [][Handed("up")
         => /\ pressed_fired' = pressed_fired \ {ev'.key}
            /\ UNCHANGED <<alt_down, mapping, launch_q, enq>>
            /\ ret' = "event"
            /\ cb_pc' = "idle"]_vars

\* both hotkeys fired, then a key-up of 18 released 18 and kept 19 debounced
C15_Witness ==
    /\ ev.type = "up" /\ ev.key = 18
    /\ Len(enq) = 2
    /\ pressed_fired = {19}
    /\ ret = "event"

\* C16: MAPPING_LOCK is held only across the replacement (loader) and the
\* lookup (callback): the holder stands exactly at that step, the step is
\* enabled while the process runs (the holder waits for nothing), it releases
\* the lock, prints nothing, reads no file and enqueues nothing; the launcher
\* never holds the lock; and a thread waiting for the lock can take it as
\* soon as that one step is done.
C16_LockScope ==
    /\ [](/\ lock \in {"free", "cb", "loader"}
          /\ (lock = "loader") = (ld_pc = "set")
          /\ (lock = "cb") = (cb_pc = "get")
          /\ ((Alive /\ lock = "loader") => (ENABLED LoadInstall))
          /\ ((Alive /\ lock = "cb") => (ENABLED CbLookup))
          /\ ((Alive /\ cb_pc = "lock" /\ lock = "free") => (ENABLED CbAcquire))
          /\ ((Alive /\ ld_pc = "lock" /\ lock = "free") => (ENABLED LoadAcquire)))
    /\ [][/\ ((lock = "loader" /\ ld_pc' # ld_pc)
                => (lock' = "free" /\ mapping' = new_map /\ EnqueuesNone
                    /\ UNCHANGED <<ld_log, file>>))
           /\ ((lock = "cb" /\ cb_pc' # cb_pc)
                => (lock' = "free" /\ bundle_id' = Get(mapping, cb_key)
                    /\ EnqueuesNone /\ UNCHANGED mapping))
           /\ (launcherVars' # launcherVars => UNCHANGED lock)]_vars

\* the callback waits for the lock while the loader holds it
C16_Witness ==
    /\ cb_pc = "lock"
    /\ lock = "loader"
    /\ ld_pc = "set"

\* C17: with the launcher thread scheduled fairly, the n-th request enqueued
\* is eventually the n-th target handed to Popen; the launcher never leaves
\* its loop, because nothing the callback enqueues is None.
C17_EveryRequestLaunched ==
    /\ \A n \in 1..MaxPuts :
          (Len(enq) >= n) ~> (Len(attempts) >= n /\ attempts[n].target = enq[n])
    /\ [](ln_pc # "exited")
    /\ [](\A i \in DOMAIN enq : enq[i] # None)

\* two requests were enqueued and both were handed to Popen; the launcher
\* is back at the queue
C17_Witness ==
    /\ Len(enq) = 2
    /\ AttemptTargets = enq
    /\ launch_q = <<>>
    /\ ln_pc = "get"

\* C18: no step of the config watcher, the loader or the launcher changes
\* DebounceSet or the tracked ModifierState; a reload that drops or remaps a
\* debounced key leaves it debounced.
C18_DebounceOwnedByCallback ==
    [][(\/ <<file, ld_pc, new_map, ld_log, mapping>>' # <<file, ld_pc, new_map, ld_log, mapping>>
        \/ launcherVars' # launcherVars
        \/ Len(launch_q') < Len(launch_q))
          => UNCHANGED <<pressed_fired, alt_down>>]_vars

\* 18 fired, and a reload then installed a snapshot without 18: 18 is still
\* debounced
C18_Witness ==
    /\ 18 \in pressed_fired
    /\ 18 \notin DOMAIN mapping
    /\ ld_log = "reloading"
    /\ ld_pc = "idle"
    /\ cb_pc = "idle"

\* C19: launches are attempted in the order of the requests: the targets
\* handed to Popen so far, then the one in the launcher's hand, are the first
\* requests enqueued, in their order, and each Popen call is for the
\* earliest request not attempted yet.
C19_LaunchOrderFifo ==
    /\ [](LET taken == AttemptTargets \o InHand
          IN  Len(taken) <= Len(enq) /\ taken = SubSeq(enq, 1, Len(taken)))
    /\ [][attempts' # attempts
            => (Len(attempts') = Len(attempts) + 1
                /\ attempts'[Len(attempts')].target = enq[Len(attempts')])]_vars

\* two different targets were requested and were attempted in the order
\* requested
C19_Witness ==
    /\ Len(attempts) = 2
    /\ attempts[1].target # attempts[2].target
    /\ attempts[1].target = enq[1]
    /\ attempts[2].target = enq[2]

\* C20: for every key, at most one request is enqueued between two of its
\* debounce resets (its key-up, or a tracked down->up transition of the
\* modifier), whatever reloads come in between; the target enqueued is the
\* one the lookup found in the snapshot installed at that moment, even when
\* a reload installs another before the enqueue.
C20_OneLaunchPerPress ==
    /\ [](\A k \in EventKeys : since[k] <= 1)
    /\ [][/\ ((cb_pc = "get" /\ cb_pc' = "fire")
                => bundle_id' = Get(mapping, cb_key))
           /\ ((cb_pc = "fire" /\ cb_pc' = "fire")
                => UNCHANGED <<bundle_id, cb_key, pressed_fired, enq>>)
           /\ \A k \in EventKeys :
                 (DownDone(k) /\ enq' # enq)
                    => (enq' = Append(enq, bundle_id) /\ k \notin pressed_fired
                        /\ k \in pressed_fired')]_vars

\* 18 was launched with one target, a reload remapped it, and a repeated
\* key-down of 18 has looked up the new target while 18 is still debounced
C20_Witness ==
    /\ cb_pc = "fire"
    /\ cb_key = 18
    /\ 18 \in pressed_fired
    /\ since[18] = 1
    /\ Len(enq) = 1
    /\ Truthy(bundle_id)
    /\ bundle_id # enq[1]

====
